---------------------------- MODULE Spec2Model ----------------------------
(***************************************************************************)
(* pygenogrove: the Python binding layer (src/src/bindings.cpp) over the   *)
(* genogrove interval B+ tree.  The binding's methods are modelled from    *)
(* bindings.cpp; the C++ engine they call (interval, key, grove) is        *)
(* modelled from spec.md sections 3 and 4.                                 *)
(***************************************************************************)
EXTENDS Integers, Sequences, FiniteSets

VARIABLES g,      \* the Grove object held by the Python caller
          g2,     \* a second Grove of the same order (bulk-load comparison)
          arg,    \* the constructor argument (0: Grove() without argument)
          calls,  \* history: the insert calls made so far, in call order
          ret     \* the value returned by the last call, until consumed

vars == <<g, g2, arg, calls, ret>>

\* ---------------------------------------------------------------- bounds
MaxInserts == 3
MaxPos == 4

\* the inputs: index names, constructor arguments (0: none), coordinates
Coords == 0..2

Names == {"chr1", "chr2"}
CtorArgs == {0, 2}

\* ------------------------------------------------------------- Interval
DefaultOrder == 3

Interval(s, e) == [start |-> s, end |-> e]

Interval0 == Interval(0, 0)

ValidIntervals(C) == {i \in [start : C, end : C] : i.start <= i.end}

Intervals == ValidIntervals(Coords)

Positions == ValidIntervals(0..MaxPos)

\* interval::operator< : by start, then by end
Less(a, b) == a.start < b.start \/ (a.start = b.start /\ a.end < b.end)

\* interval::overlap
overlap(a, b) == a.start < b.end /\ b.start < a.end

\* Interval.overlap, the static method of the Python class
Interval_overlap(a, b) == overlap(a, b)

\* --------------------------------------------------------------- Key
\* key<interval>(interval): wraps the interval by value
key(interval) == [value |-> interval]

\* Key.value: the interval held by the stored Key the handle refers to
Key_value(gr, h) == gr.arena[h].value

\* ------------------------------------------------------------- B+ tree
Min(S) == CHOOSE x \in S : \A y \in S : x <= y

InsertAt(s, i, x) == SubSeq(s, 1, i) \o <<x>> \o SubSeq(s, i + 1, Len(s))

\* number of keys of a node that are <= v: the sorted position of v
UpperBound(arena, keys, v) ==
    LET S == {i \in 1..Len(keys) : Less(v, arena[keys[i]].value)}
    IN  IF S = {} THEN Len(keys) ELSE Min(S) - 1

LeafNode(keys, next) ==
    [leaf |-> TRUE, keys |-> keys, children |-> <<>>, next |-> next]

InnerNode(keys, children) ==
    [leaf |-> FALSE, keys |-> keys, children |-> children, next |-> 0]

NoSplit(nodes) == [nodes |-> nodes, split |-> FALSE, promoted |-> 0, right |-> 0]

\* a leaf over capacity: the upper half moves to a new right sibling on the
\* leaf chain and the sibling's first key is promoted
SplitLeaf(nodes, n, keys) ==
    LET mid   == Len(keys) \div 2
        id    == Len(nodes) + 1
        rkeys == SubSeq(keys, mid + 1, Len(keys))
    IN  [nodes    |-> Append([nodes EXCEPT ![n].keys = SubSeq(keys, 1, mid),
                                           ![n].next = id],
                             LeafNode(rkeys, nodes[n].next)),
         split    |-> TRUE,
         promoted |-> rkeys[1],
         right    |-> id]

\* an internal node over capacity: the median key moves up
SplitInner(nodes, n, keys, children) ==
    LET mid == Len(keys) \div 2
        id  == Len(nodes) + 1
    IN  [nodes    |-> Append([nodes EXCEPT ![n].keys = SubSeq(keys, 1, mid),
                                           ![n].children = SubSeq(children, 1, mid + 1)],
                             InnerNode(SubSeq(keys, mid + 2, Len(keys)),
                                       SubSeq(children, mid + 2, Len(children)))),
         split    |-> TRUE,
         promoted |-> keys[mid + 1],
         right    |-> id]

Overflows(keys, order) == Len(keys) > order - 1

RECURSIVE InsertRec(_, _, _, _, _, _)
InsertRec(nodes, arena, n, h, sorted, order) ==
    IF nodes[n].leaf
    THEN LET pos  == IF sorted THEN Len(nodes[n].keys)
                     ELSE UpperBound(arena, nodes[n].keys, arena[h].value)
             keys == InsertAt(nodes[n].keys, pos, h)
         IN  IF Overflows(keys, order)
             THEN SplitLeaf(nodes, n, keys)
             ELSE NoSplit([nodes EXCEPT ![n].keys = keys])
    ELSE LET ci == IF sorted THEN Len(nodes[n].children)
                   ELSE UpperBound(arena, nodes[n].keys, arena[h].value) + 1
             r  == InsertRec(nodes, arena, nodes[n].children[ci], h, sorted, order)
         IN  IF ~r.split
             THEN r
             ELSE LET keys     == InsertAt(r.nodes[n].keys, ci - 1, r.promoted)
                      children == InsertAt(r.nodes[n].children, ci, r.right)
                  IN  IF Overflows(keys, order)
                      THEN SplitInner(r.nodes, n, keys, children)
                      ELSE NoSplit([r.nodes EXCEPT ![n].keys = keys,
                                                   ![n].children = children])

\* insert into the tree rooted at root (0: the empty tree); a root split
\* creates a new root above the two halves
tree_insert(nodes, arena, root, h, sorted, order) ==
    IF root = 0
    THEN [nodes |-> Append(nodes, LeafNode(<<h>>, 0)), root |-> Len(nodes) + 1]
    ELSE LET r == InsertRec(nodes, arena, root, h, sorted, order)
         IN  IF r.split
             THEN [nodes |-> Append(r.nodes, InnerNode(<<r.promoted>>, <<root, r.right>>)),
                   root  |-> Len(r.nodes) + 1]
             ELSE [nodes |-> r.nodes, root |-> root]

RECURSIVE LeftmostLeaf(_, _)
LeftmostLeaf(nodes, n) ==
    IF nodes[n].leaf THEN n ELSE LeftmostLeaf(nodes, nodes[n].children[1])

\* the leaf-chain scan of the overlap search: stored keys are ordered by
\* start, so the scan ends at the first key that starts at or after q.end
RECURSIVE Scan(_, _, _, _, _)
Scan(nodes, arena, n, i, q) ==
    IF n = 0 THEN <<>>
    ELSE IF i > Len(nodes[n].keys) THEN Scan(nodes, arena, nodes[n].next, 1, q)
    ELSE LET h == nodes[n].keys[i]
         IN  IF arena[h].value.start >= q.end THEN <<>>
             ELSE (IF overlap(arena[h].value, q) THEN <<h>> ELSE <<>>)
                  \o Scan(nodes, arena, n, i + 1, q)

tree_intersect(nodes, arena, root, q) ==
    IF root = 0 THEN <<>> ELSE Scan(nodes, arena, LeftmostLeaf(nodes, root), 1, q)

RECURSIVE ChainCount(_, _)
ChainCount(nodes, n) ==
    IF n = 0 THEN 0 ELSE Len(nodes[n].keys) + ChainCount(nodes, nodes[n].next)

tree_size(nodes, root) ==
    IF root = 0 THEN 0 ELSE ChainCount(nodes, LeftmostLeaf(nodes, root))

\* --------------------------------------------------------------- grove
grove(order) ==
    [order |-> order, indices |-> <<>>, trees |-> <<>>, nodes |-> <<>>, arena |-> <<>>]

grove_insert(gr, index, k, sorted) ==
    LET fresh == index \notin DOMAIN gr.trees
        root  == IF fresh THEN 0 ELSE gr.trees[index]
        arena == Append(gr.arena, k)
        h     == Len(arena)
        t     == tree_insert(gr.nodes, arena, root, h, sorted, gr.order)
    IN  [g   |-> [order   |-> gr.order,
                  indices |-> IF fresh THEN Append(gr.indices, index) ELSE gr.indices,
                  trees   |-> [n \in DOMAIN gr.trees \cup {index} |->
                                 IF n = index THEN t.root ELSE gr.trees[n]],
                  nodes   |-> t.nodes,
                  arena   |-> arena],
         key |-> h]

query_result(q, keys) == [query |-> q, keys |-> keys]

\* grove::intersect(query, index): a lookup of the name, never a creation
grove_intersect_index(gr, q, index) ==
    [g      |-> gr,
     result |-> IF index \in DOMAIN gr.trees
                THEN query_result(q, tree_intersect(gr.nodes, gr.arena, gr.trees[index], q))
                ELSE query_result(q, <<>>)]

RECURSIVE FanOut(_, _, _)
FanOut(gr, q, i) ==
    IF i > Len(gr.indices) THEN <<>>
    ELSE tree_intersect(gr.nodes, gr.arena, gr.trees[gr.indices[i]], q)
         \o FanOut(gr, q, i + 1)

\* grove::intersect(query): every tree, in index order
grove_intersect(gr, q) == [g |-> gr, result |-> query_result(q, FanOut(gr, q, 1))]

RECURSIVE SumSizes(_, _)
SumSizes(gr, i) ==
    IF i > Len(gr.indices) THEN 0
    ELSE tree_size(gr.nodes, gr.trees[gr.indices[i]]) + SumSizes(gr, i + 1)

grove_size(gr) == SumSizes(gr, 1)

grove_get_order(gr) == gr.order

\* ------------------------------------------------- the Python class Grove
\* variant: the order argument is dropped
Grove_init_Default(a) == grove(DefaultOrder)

\* Grove() and Grove(order)
Grove_init(a) == IF a = 0 THEN grove(DefaultOrder) ELSE grove(a)

\* variant: the Key is built without the interval
Grove_insert_DefaultKey(gr, index, interval) ==
    grove_insert(gr, index, key(Interval0), FALSE)

\* variant: the call goes to insert_sorted
Grove_insert_Appends(gr, index, interval) ==
    grove_insert(gr, index, key(interval), TRUE)

\* variant: the Key is returned as a copy, not as a reference to the stored Key
Grove_insert_ReturnsCopy(gr, index, interval) ==
    [g |-> grove_insert(gr, index, key(interval), FALSE).g, key |-> 0]

\* Grove.insert: wraps the interval in a Key, returns the stored Key by reference
Grove_insert(gr, index, interval) == grove_insert(gr, index, key(interval), FALSE)

\* variant: the Key is built without the interval
Grove_insert_sorted_DefaultKey(gr, index, interval) ==
    grove_insert(gr, index, key(Interval0), TRUE)

\* Grove.insert_sorted
Grove_insert_sorted(gr, index, interval) == grove_insert(gr, index, key(interval), TRUE)

\* variant: bound to the scoped overload with an empty name
Grove_intersect_EmptyName(gr, q) == grove_intersect_index(gr, q, "")

\* Grove.intersect(query)
Grove_intersect(gr, q) == grove_intersect(gr, q)

\* variant: bound to the unscoped overload
Grove_intersect_index_Unscoped(gr, q, index) == grove_intersect(gr, q)

\* Grove.intersect(query, index)
Grove_intersect_index(gr, q, index) == grove_intersect_index(gr, q, index)

\* variant: bound to get_order
Grove_size_Order(gr) == grove_get_order(gr)

\* Grove.size
Grove_size(gr) == grove_size(gr)

Grove_get_order(gr) == grove_get_order(gr)

\* ------------------------------------------- the Python class QueryResult
QueryResult_query(qr) == qr.query

QueryResult_keys(qr) == qr.keys

QueryResult_len(qr) == Len(qr.keys)

\* ------------------------------------------------------------- actions
None == [kind |-> "none"]

Init ==
    /\ arg \in CtorArgs
    /\ g = Grove_init(arg)
    /\ g2 = Grove_init(arg)
    /\ calls = <<>>
    /\ ret = None

Idle == ret.kind = "none"

Call(index, interval, k) == [index |-> index, interval |-> interval, key |-> k]

\* insert_sorted's contract: the interval exceeds every interval of the index
ExceedsAll(index, interval) ==
    \A c \in 1..Len(calls) :
        calls[c].index = index => Less(calls[c].interval, interval)

Insert(index, interval) ==
    /\ Idle
    /\ Len(calls) < MaxInserts
    /\ LET r == Grove_insert(g, index, interval)
       IN  /\ g' = r.g
           /\ ret' = [kind |-> "key", key |-> r.key]
           /\ calls' = Append(calls, Call(index, interval, r.key))
    /\ UNCHANGED <<g2, arg>>

InsertSorted(index, interval) ==
    /\ Idle
    /\ Len(calls) < MaxInserts
    /\ ExceedsAll(index, interval)
    /\ LET r == Grove_insert_sorted(g, index, interval)
       IN  /\ g' = r.g
           /\ ret' = [kind |-> "key", key |-> r.key]
           /\ calls' = Append(calls, Call(index, interval, r.key))
    /\ UNCHANGED <<g2, arg>>

Intersect(q) ==
    /\ Idle
    /\ LET r == Grove_intersect(g, q)
       IN  /\ g' = r.g
           /\ ret' = [kind |-> "result", scoped |-> FALSE, index |-> "",
                      q |-> q, qr |-> r.result]
    /\ UNCHANGED <<g2, arg, calls>>

IntersectIndex(q, index) ==
    /\ Idle
    /\ LET r == Grove_intersect_index(g, q, index)
       IN  /\ g' = r.g
           /\ ret' = [kind |-> "result", scoped |-> TRUE, index |-> index,
                      q |-> q, qr |-> r.result]
    /\ UNCHANGED <<g2, arg, calls>>

Size ==
    /\ Idle
    /\ ret' = [kind |-> "size", n |-> Grove_size(g)]
    /\ UNCHANGED <<g, g2, arg, calls>>

GetOrder ==
    /\ Idle
    /\ ret' = [kind |-> "order", n |-> Grove_get_order(g)]
    /\ UNCHANGED <<g, g2, arg, calls>>

\* the caller drops the returned value
Consume ==
    /\ ~Idle
    /\ ret' = None
    /\ UNCHANGED <<g, g2, arg, calls>>

Next ==
    \/ \E index \in Names, interval \in Intervals : Insert(index, interval)
    \/ \E index \in Names, interval \in Intervals : InsertSorted(index, interval)
    \/ \E q \in Intervals : Intersect(q)
    \/ \E q \in Intervals, index \in Names : IntersectIndex(q, index)
    \/ Size
    \/ GetOrder
    \/ Consume

Spec == Init /\ [][Next]_vars

\* a caller that loads through insert only
NextInsert ==
    \/ \E index \in Names, interval \in Intervals : Insert(index, interval)
    \/ \E q \in Intervals : Intersect(q)
    \/ Consume

SpecInsert == Init /\ [][NextInsert]_vars

\* two Groves of one order loaded in step with the same sorted sequence: g
\* through insert, g2 through insert_sorted
PairInsert(index, interval) ==
    /\ Idle
    /\ Len(calls) < MaxInserts
    /\ ExceedsAll(index, interval)
    /\ LET r  == Grove_insert(g, index, interval)
           r2 == Grove_insert_sorted(g2, index, interval)
       IN  /\ g' = r.g
           /\ g2' = r2.g
           /\ ret' = [kind |-> "keys", key |-> r.key, key2 |-> r2.key]
           /\ calls' = Append(calls, Call(index, interval, r.key))
    /\ UNCHANGED arg

PairIntersect(q) ==
    /\ Idle
    /\ LET r  == Grove_intersect(g, q)
           r2 == Grove_intersect(g2, q)
       IN  /\ g' = r.g
           /\ g2' = r2.g
           /\ ret' = [kind |-> "pair", q |-> q,
                      a |-> [i \in 1..Len(r.result.keys) |-> Key_value(r.g, r.result.keys[i])],
                      b |-> [i \in 1..Len(r2.result.keys) |-> Key_value(r2.g, r2.result.keys[i])]]
    /\ UNCHANGED <<arg, calls>>

PairIntersectIndex(q, index) ==
    /\ Idle
    /\ LET r  == Grove_intersect_index(g, q, index)
           r2 == Grove_intersect_index(g2, q, index)
       IN  /\ g' = r.g
           /\ g2' = r2.g
           /\ ret' = [kind |-> "pair", q |-> q,
                      a |-> [i \in 1..Len(r.result.keys) |-> Key_value(r.g, r.result.keys[i])],
                      b |-> [i \in 1..Len(r2.result.keys) |-> Key_value(r2.g, r2.result.keys[i])]]
    /\ UNCHANGED <<arg, calls>>

NextPair ==
    \/ \E index \in Names, interval \in Intervals : PairInsert(index, interval)
    \/ \E q \in Intervals : PairIntersect(q)
    \/ \E q \in Intervals, index \in Names : PairIntersectIndex(q, index)
    \/ Consume

SpecPair == Init /\ [][NextPair]_vars

\* Interval.overlap applied to every pair of intervals over 0..MaxPos
Overlap(a, b) ==
    /\ Idle
    /\ ret' = [kind |-> "overlap", a |-> a, b |-> b, value |-> Interval_overlap(a, b)]
    /\ UNCHANGED <<g, g2, arg, calls>>

NextOverlap ==
    \/ \E a \in Positions, b \in Positions : Overlap(a, b)
    \/ Consume

SpecOverlap == Init /\ [][NextOverlap]_vars

\* ---------------------------------------------- history and tree shape
Occurrences(ks, h) == Cardinality({i \in 1..Len(ks) : ks[i] = h})

RECURSIVE FirstSeenTo(_)
FirstSeenTo(n) ==
    IF n = 0 THEN <<>>
    ELSE LET before == FirstSeenTo(n - 1)
         IN  IF \E i \in 1..Len(before) : before[i] = calls[n].index
             THEN before
             ELSE Append(before, calls[n].index)

FirstSeen == FirstSeenTo(Len(calls))

RECURSIVE Reach(_, _)
Reach(nodes, n) ==
    {n} \cup UNION {Reach(nodes, nodes[n].children[i]) : i \in 1..Len(nodes[n].children)}

TreeNodes(gr, name) ==
    IF name \in DOMAIN gr.trees THEN Reach(gr.nodes, gr.trees[name]) ELSE {}

LeafSlots(gr, name) ==
    {s \in TreeNodes(gr, name) \X (1..MaxInserts + 1) :
        gr.nodes[s[1]].leaf /\ s[2] <= Len(gr.nodes[s[1]].keys)}

RECURSIVE Depth(_, _)
Depth(nodes, n) ==
    IF nodes[n].leaf THEN 1 ELSE 1 + Depth(nodes, nodes[n].children[1])

Height(gr, name) ==
    IF name \in DOMAIN gr.trees THEN Depth(gr.nodes, gr.trees[name]) ELSE 0

\* ------------------------------------------------------------- claims
IsResult == ret.kind = "result"

IsScoped == IsResult /\ ret.scoped

IsUnscoped == IsResult /\ ~ret.scoped

NonEmpty(i) == i.start < i.end

Order(a) == IF a = 0 THEN DefaultOrder ELSE a

\* C1: a scoped intersect returns exactly the entries inserted under that
\* name that overlap the query: each exactly once (an interval inserted
\* twice is two entries), none missed, none that does not overlap, none of
\* another index; each returned Key carries the interval that was inserted.
C1_ScopedExact ==
    IsScoped =>
        LET ks == QueryResult_keys(ret.qr)
        IN  /\ \A c \in 1..Len(calls) :
                  Occurrences(ks, calls[c].key) =
                      IF calls[c].index = ret.index /\ overlap(calls[c].interval, ret.q)
                      THEN 1 ELSE 0
            /\ \A i \in 1..Len(ks) :
                  \E c \in 1..Len(calls) :
                      calls[c].key = ks[i] /\ Key_value(g, ks[i]) = calls[c].interval

\* a scoped answer after three inserts: a wide interval that starts before
\* the query, a duplicate pair, an overlapping entry of the other index
\* that is left out, and a tree that has split
C1_Witness ==
    /\ IsScoped
    /\ Len(calls) = 3
    /\ ret.index = "chr1"
    /\ ret.q = Interval(1, 2)
    /\ Len(ret.qr.keys) = 2
    /\ \E c \in 1..3 : calls[c].index = "chr2" /\ overlap(calls[c].interval, ret.q)
    /\ \A c \in 1..3 : calls[c].index = "chr1" => calls[c].interval = Interval(0, 2)
    /\ Height(g, "chr1") > 1

\* C2: size() is the sum of the entry counts of the named trees and the
\* number of insert and insert_sorted calls made so far, in every state,
\* the states reached by intersect calls included.
C2_Size ==
    /\ Grove_size(g) = Len(calls)
    /\ Cardinality(UNION {LeafSlots(g, name) : name \in DOMAIN g.trees}) = Len(calls)
    /\ \A name \in DOMAIN g.trees :
          Cardinality(LeafSlots(g, name)) =
              Cardinality({c \in 1..Len(calls) : calls[c].index = name})
    /\ ret.kind = "size" => ret.n = Len(calls)

C2_Witness ==
    /\ ret.kind = "size"
    /\ ret.n = 3
    /\ Cardinality(DOMAIN g.trees) = 2
    /\ \E c \in 1..3, d \in 1..3 : c # d /\ calls[c] = [calls[d] EXCEPT !.key = calls[c].key]

\* the query [min start, max end) over the intervals inserted so far
Cover ==
    LET S == {calls[c].interval.start : c \in 1..Len(calls)}
        E == {calls[c].interval.end : c \in 1..Len(calls)}
    IN  Interval(Min(S), CHOOSE x \in E : \A y \in E : y <= x)

\* C3 as stated: after N inserts of valid intervals, zero-length ones
\* included, the unscoped intersect with [min start, max end) returns all N.
C3_AsStated ==
    (IsUnscoped /\ Len(calls) > 0 /\ ret.q = Cover) =>
        /\ QueryResult_len(ret.qr) = Len(calls)
        /\ \A c \in 1..Len(calls) : Occurrences(ret.qr.keys, calls[c].key) = 1

\* C3 amended: after N inserts of intervals with start < end, in any order,
\* the unscoped intersect with [min start, max end) returns all N keys.
C3_CoverNonEmpty ==
    (/\ IsUnscoped
     /\ Len(calls) > 0
     /\ ret.q = Cover
     /\ \A c \in 1..Len(calls) : NonEmpty(calls[c].interval)) =>
        /\ QueryResult_len(ret.qr) = Len(calls)
        /\ \A c \in 1..Len(calls) : Occurrences(ret.qr.keys, calls[c].key) = 1

C3_Witness ==
    /\ IsUnscoped
    /\ Len(calls) = 3
    /\ ret.q = Cover
    /\ \A c \in 1..3 : NonEmpty(calls[c].interval)
    /\ Less(calls[3].interval, calls[1].interval)
    /\ Less(calls[1].interval, calls[2].interval)
    /\ Cardinality(DOMAIN g.trees) = 2
    /\ QueryResult_len(ret.qr) = 3

\* C4: loaded with the same sorted sequence, the Grove filled by insert and
\* the Grove filled by insert_sorted answer every scoped and unscoped
\* overlap query with the same intervals in the same order.
C4_SameAnswers ==
    /\ ret.kind = "pair" => ret.a = ret.b
    /\ ret.kind = "keys" => Key_value(g, ret.key) = Key_value(g2, ret.key2)

C4_Witness ==
    /\ ret.kind = "pair"
    /\ Len(calls) = 3
    /\ Len(ret.a) = 2
    /\ ret.a[1] # ret.a[2]
    /\ Height(g2, "chr1") > 1

\* C5: a scoped intersect for a name never inserted into returns an empty
\* QueryResult carrying the query, creates no tree, and leaves size() and
\* the index names and their order as the inserts made them.
C5_UnknownIndex ==
    (IsScoped /\ \A c \in 1..Len(calls) : calls[c].index # ret.index) =>
        /\ QueryResult_len(ret.qr) = 0
        /\ QueryResult_keys(ret.qr) = <<>>
        /\ QueryResult_query(ret.qr) = ret.q
        /\ ret.index \notin DOMAIN g.trees
        /\ g.indices = FirstSeen
        /\ Grove_size(g) = Len(calls)

C5_Witness ==
    /\ IsScoped
    /\ ret.index = "chr2"
    /\ Len(calls) = 2
    /\ \A c \in 1..2 : calls[c].index = "chr1" /\ overlap(calls[c].interval, ret.q)
    /\ QueryResult_len(ret.qr) = 0

RECURSIVE PerIndex(_, _, _)
PerIndex(names, q, i) ==
    IF i > Len(names) THEN <<>>
    ELSE QueryResult_keys(Grove_intersect_index(g, q, names[i]).result)
         \o PerIndex(names, q, i + 1)

\* C6: the unscoped intersect returns the scoped results of the index
\* names, concatenated in the order in which the names were first inserted
\* into, under the query it was given.
C6_Concatenation ==
    IsUnscoped =>
        /\ QueryResult_keys(ret.qr) = PerIndex(FirstSeen, ret.q, 1)
        /\ QueryResult_query(ret.qr) = ret.q

\* chr2 was inserted into first and chr1 second; both contribute
C6_Witness ==
    /\ IsUnscoped
    /\ Len(calls) = 3
    /\ FirstSeen = <<"chr2", "chr1">>
    /\ QueryResult_len(ret.qr) = 3
    /\ Key_value(g, ret.qr.keys[1]) = Interval(1, 2)
    /\ Key_value(g, ret.qr.keys[2]) = Interval(0, 1)
    /\ Key_value(g, ret.qr.keys[3]) = Interval(0, 2)

IndexOfKey(h) == (CHOOSE c \in 1..Len(calls) : calls[c].key = h)

CallOfKey(h) == calls[IndexOfKey(h)]

InOrder(h1, h2) ==
    /\ ~Less(Key_value(g, h2), Key_value(g, h1))
    /\ Key_value(g, h1) = Key_value(g, h2) => IndexOfKey(h1) < IndexOfKey(h2)

\* C7 as stated: the keys of every QueryResult, scoped or unscoped, ascend
\* by interval.
C7_AsStated ==
    IsResult =>
        \A i \in 1..Len(ret.qr.keys), j \in 1..Len(ret.qr.keys) :
            i < j => ~Less(Key_value(g, ret.qr.keys[j]), Key_value(g, ret.qr.keys[i]))

\* C7 amended: the keys of a scoped QueryResult ascend by interval (start,
\* then end), equal intervals in insertion order and each kept; in an
\* unscoped QueryResult this holds among the keys of each index.
C7_AscendingPerIndex ==
    IsResult =>
        LET ks == QueryResult_keys(ret.qr)
        IN  \A i \in 1..Len(ks), j \in 1..Len(ks) :
                (i < j /\ CallOfKey(ks[i]).index = CallOfKey(ks[j]).index) =>
                    /\ ks[i] # ks[j]
                    /\ InOrder(ks[i], ks[j])

\* a scoped answer of three keys inserted out of order, with a tie
C7_Witness ==
    /\ IsScoped
    /\ Len(ret.qr.keys) = 3
    /\ Less(calls[2].interval, calls[1].interval)
    /\ calls[3].interval = calls[2].interval
    /\ ret.qr.keys = <<2, 3, 1>>

SharePoint(a, b) ==
    \E p \in 0..MaxPos : a.start <= p /\ p < a.end /\ b.start <= p /\ p < b.end

\* C9: Interval.overlap(a, b) holds exactly when [a.start, a.end) and
\* [b.start, b.end) share a point; a zero-length interval overlaps nothing.
C9_HalfOpenOverlap ==
    ret.kind = "overlap" =>
        /\ ret.value = SharePoint(ret.a, ret.b)
        /\ (ret.a.start = ret.a.end => ~ret.value)

NodeCap(gr, m) ==
    \A name \in DOMAIN gr.trees :
        \A n \in TreeNodes(gr, name) : Len(gr.nodes[n].keys) <= m - 1

HeightStep(name) ==
    LET grew == name \notin DOMAIN g.trees \/ g'.trees[name] # g.trees[name]
    IN  /\ Height(g', name) = IF grew THEN Height(g, name) + 1 ELSE Height(g, name)
        /\ (grew /\ name \in DOMAIN g.trees) =>
              LET top == g'.nodes[g'.trees[name]]
              IN  /\ ~top.leaf
                  /\ Len(top.keys) = 1
                  /\ top.children[1] = g.trees[name]
                  /\ g'.trees[name] \notin DOMAIN g.nodes

\* C10: after every call each node of each tree holds at most m - 1 keys,
\* m the order the Grove was constructed with (3 without argument); the
\* height of a tree grows only by a new root, and then by exactly one.
C10_NodeCapacity ==
    [][/\ Grove_get_order(g') = Order(arg)
       /\ NodeCap(g', Order(arg))
       /\ \A name \in DOMAIN g'.trees : HeightStep(name)]_vars

\* an order-2 tree after a leaf split under a full root: height three
C10_Witness ==
    /\ arg = 2
    /\ Height(g, "chr1") = 3
    /\ Cardinality(TreeNodes(g, "chr1")) = 6
    /\ NodeCap(g, 2)

=============================================================================
